---------------------------- MODULE Spec2Model ----------------------------
(***************************************************************************)
(* A model of src/src/core/extractor.py of pdf2email: the text accessor    *)
(* (extract_text_content), the title resolver (get_strict_title), the      *)
(* email extractor (extract_emails) and the per-document orchestration     *)
(* (process_single_pdf).                                                   *)
(*                                                                         *)
(* A Python str is modelled as a sequence of one-character strings, so     *)
(* that strip(), lower(), the regular expressions and the length tests are *)
(* computed character by character as the code computes them.  Font sizes  *)
(* and page coordinates are integers; the factors 0.99 and 1.3 are applied *)
(* as the integer ratios 99/100 and 13/10.                                 *)
(***************************************************************************)
EXTENDS Integers, Sequences, FiniteSets, TLC

(***************************************************************************)
(* Characters and the str methods the code uses                            *)
(***************************************************************************)
UpperSeq == <<"A","B","C","D","E","F","G","H","I","J","K","L","M","N","O","P","Q","R","S","T","U","V","W","X","Y","Z">>
LowerSeq == <<"a","b","c","d","e","f","g","h","i","j","k","l","m","n","o","p","q","r","s","t","u","v","w","x","y","z">>
Range(f) == {f[i] : i \in DOMAIN f}
Uppers == Range(UpperSeq)
Lowers == Range(LowerSeq)
Letters == Uppers \cup Lowers
Digits == Range(<<"0","1","2","3","4","5","6","7","8","9">>)
\* \s of the re module (the whitespace str.strip() removes)
Whitespace == {" ", "\n", "\t", "\r", "\f"}
\* \w of the re module
WordChars == Letters \cup Digits \cup {"_"}

SetMin(S) == CHOOSE x \in S : \A y \in S : x <= y
SetMax(S) == CHOOSE x \in S : \A y \in S : x >= y

\* str.lower() on one character and on a string
ToLower(c) == IF c \in Uppers THEN LowerSeq[CHOOSE i \in 1..26 : UpperSeq[i] = c] ELSE c
lower(s) == [i \in 1..Len(s) |-> ToLower(s[i])]

\* str.strip(): leading and trailing whitespace removed
strip(s) ==
  LET keep == {i \in 1..Len(s) : s[i] \notin Whitespace}
  IN  IF keep = {} THEN <<>> ELSE SubSeq(s, SetMin(keep), SetMax(keep))

\* `sub in s`
Contains(s, sub) == \E i \in 0..(Len(s) - Len(sub)) : SubSeq(s, i + 1, i + Len(sub)) = sub
\* re.match/re.search of an anchored literal prefix `^lit`
StartsWith(s, lit) == Len(s) >= Len(lit) /\ SubSeq(s, 1, Len(lit)) = lit
\* re.search of an anchored literal suffix `lit$` on a string with no trailing newline
EndsWith(s, lit) == Len(s) >= Len(lit) /\ SubSeq(s, Len(s) - Len(lit) + 1, Len(s)) = lit
\* str.count(c) for a one-character c
count(s, c) == Cardinality({i \in 1..Len(s) : s[i] = c})

\* the end of the longest run of characters of class C that starts at i (i - 1: no run)
RECURSIVE RunEnd(_, _, _)
RunEnd(s, i, C) == IF i <= Len(s) /\ s[i] \in C THEN RunEnd(s, i + 1, C) ELSE i - 1

\* " ".join(parts)
RECURSIVE join(_)
join(parts) ==
  IF parts = <<>> THEN <<>>
  ELSE IF Len(parts) = 1 THEN parts[1]
  ELSE parts[1] \o <<" ">> \o join(Tail(parts))

\* re.sub(r"\s+", " ", s): every whitespace run becomes one space
RECURSIVE collapse_ws(_, _)
collapse_ws(s, i) ==
  IF i > Len(s) THEN <<>>
  ELSE IF s[i] \in Whitespace
       THEN <<" ">> \o collapse_ws(s, RunEnd(s, i, Whitespace) + 1)
       ELSE <<s[i]>> \o collapse_ws(s, i + 1)

\* s repeated n times
RECURSIVE Rep(_, _)
Rep(s, n) == IF n = 0 THEN <<>> ELSE s \o Rep(s, n - 1)

(***************************************************************************)
(* EMAIL_RE and extract_emails                                             *)
(***************************************************************************)
LocalChars == Letters \cup Digits \cup {".", "_", "%", "+", "-"}
DomainChars == Letters \cup Digits \cup {".", "-"}

\* The end of the match of EMAIL_RE that starts at i, 0 when there is none.  The
\* local part is the whole run of local characters (no shorter one is followed by
\* "@"); the greedy domain gives back characters down to the last "." that at
\* least two letters follow; the top-level domain takes every letter after it.
EMAIL_RE_match(s, i) ==
  LET le == RunEnd(s, i, LocalChars)
      d0 == le + 2
      de == RunEnd(s, d0, DomainChars)
      K  == {k \in d0..de : /\ k + 3 <= Len(s)
                            /\ s[k + 1] = "."
                            /\ s[k + 2] \in Letters
                            /\ s[k + 3] \in Letters}
  IN  IF le < i \/ le + 1 > Len(s) THEN 0
      ELSE IF s[le + 1] # "@" \/ K = {} THEN 0
      ELSE RunEnd(s, SetMax(K) + 2, Letters)

\* EMAIL_RE.findall(text): the leftmost matches, none overlapping another
RECURSIVE EMAIL_RE_scan(_, _)
EMAIL_RE_scan(s, i) ==
  IF i > Len(s) THEN <<>>
  ELSE LET e == EMAIL_RE_match(s, i)
       IN  IF e = 0 THEN EMAIL_RE_scan(s, i + 1)
           ELSE <<SubSeq(s, i, e)>> \o EMAIL_RE_scan(s, e + 1)
EMAIL_RE_findall(s) == EMAIL_RE_scan(s, 1)

\* extract_emails with the matches compared as found, not lowercased
RECURSIVE unique_as_found(_, _)
unique_as_found(matches, unique_emails) ==
  IF matches = <<>> THEN unique_emails
  ELSE IF Head(matches) \in Range(unique_emails)
       THEN unique_as_found(Tail(matches), unique_emails)
       ELSE unique_as_found(Tail(matches), Append(unique_emails, lower(Head(matches))))

\* the loop of extract_emails over the matches not yet seen
RECURSIVE unique_lower(_, _)
unique_lower(matches, unique_emails) ==
  IF matches = <<>> THEN unique_emails
  ELSE LET e_lower == lower(Head(matches))
       IN  IF e_lower \in Range(unique_emails)
           THEN unique_lower(Tail(matches), unique_emails)
           ELSE unique_lower(Tail(matches), Append(unique_emails, e_lower))

extract_emails(s) == unique_lower(EMAIL_RE_findall(s), <<>>)

(***************************************************************************)
(* get_strict_title: the patterns                                          *)
(***************************************************************************)
\* re.match(r"^[\d\s\.\-_]+$", s)
numeric_or_punct(s) ==
  s # <<>> /\ \A i \in 1..Len(s) : s[i] \in Digits \cup Whitespace \cup {".", "-", "_"}
\* re.match(r"^[\d\s]+$", s)
digits_or_space(s) ==
  s # <<>> /\ \A i \in 1..Len(s) : s[i] \in Digits \cup Whitespace
\* `lit$`: at the end of the string, or just before a newline that ends it
EndsAt(s, lit) == EndsWith(s, lit) \/ EndsWith(s, lit \o <<"\n">>)
\* `^word\d*$`
WordDigits(s, word) ==
  /\ StartsWith(s, word)
  /\ LET d == RunEnd(s, Len(word) + 1, Digits)
     IN  d = Len(s) \/ (d = Len(s) - 1 /\ s[Len(s)] = "\n")
\* junk_patterns, each searched with re.IGNORECASE
is_junk(meta_title) ==
  LET m == lower(meta_title)
  IN  \/ StartsWith(m, <<"m","i","c","r","o","s","o","f","t"," ","w","o","r","d">>)
      \/ StartsWith(m, <<"u","n","t","i","t","l","e","d">>)
      \/ StartsWith(m, <<"l","a","t","e","x">>)
      \/ StartsWith(m, <<"p","r","e","s","e","n","t","a","t","i","o","n">>)
      \/ EndsAt(m, <<".","p","d","f">>)
      \/ EndsAt(m, <<".","d","o","c">>) \/ EndsAt(m, <<".","d","o","c","x">>)
      \/ StartsWith(m, <<"s","l","i","d","e">>)
      \/ WordDigits(m, <<"d","o","c","u","m","e","n","t">>)
      \/ WordDigits(m, <<"p","a","p","e","r">>)

MinMetaLen == 5
MaxMetaLen == 200
\* the validation with len(meta_title) >= 5
meta_accepted_from_5(meta_title) ==
  /\ meta_title # <<>>
  /\ Len(meta_title) >= MinMetaLen
  /\ ~numeric_or_punct(meta_title)
  /\ ~(Len(meta_title) > MaxMetaLen)
  /\ ~is_junk(meta_title)

\* Strict Metadata Validation: whether get_strict_title returns meta_title
meta_accepted(meta_title) ==
  /\ meta_title # <<>>
  /\ Len(meta_title) > MinMetaLen
  /\ ~numeric_or_punct(meta_title)
  /\ ~(Len(meta_title) > MaxMetaLen)
  /\ ~is_junk(meta_title)

\* the header pattern, searched with re.IGNORECASE
header_words ==
  {<<"d","o","i">>, <<"i","s","s","n">>, <<"h","t","t","p">>, <<"w","w","w">>, <<"v","o","l",".">>, <<"n","o",".">>, <<"p","p",".">>, <<"p","a","g","e">>, <<"d","a","t","e">>,
   <<"a","c","c","e","p","t","e","d">>, <<"r","e","c","e","i","v","e","d">>, <<"c","o","p","y","r","i","g","h","t">>, <<"l","i","c","e","n","s","e">>, <<"d","o","w","n","l","o","a","d","e","d"," ","f","r","o","m">>}
is_header(t) == \E w \in header_words : StartsWith(lower(t), w)

\* The end of a match of r"\b[A-Z]\.\s?[A-Z]" that starts at i, 0 when there is none
initials_match(s, i) ==
  IF /\ s[i] \in Uppers
     /\ (i = 1 \/ s[i - 1] \notin WordChars)
     /\ i + 1 <= Len(s)
     /\ s[i + 1] = "."
  THEN IF i + 3 <= Len(s) /\ s[i + 2] \in Whitespace /\ s[i + 3] \in Uppers THEN i + 3
       ELSE IF i + 2 <= Len(s) /\ s[i + 2] \in Uppers THEN i + 2
       ELSE 0
  ELSE 0
\* len(re.findall(r"\b[A-Z]\.\s?[A-Z]", s)), counted from position i
RECURSIVE initials_count(_, _)
initials_count(s, i) ==
  IF i > Len(s) THEN 0
  ELSE LET e == initials_match(s, i)
       IN  IF e = 0 THEN initials_count(s, i + 1) ELSE 1 + initials_count(s, e + 1)

(***************************************************************************)
(* get_strict_title: Strategy 2, the visual title                          *)
(*                                                                         *)
(* A span of the page is [text, size, y0, y1]: its text, its font size,    *)
(* and bbox[1] and bbox[3] of its bounding box.                            *)
(***************************************************************************)
\* the candidate a span gives
candidate_of(s) == [text |-> strip(s.text), size |-> s.size, y |-> s.y0, height |-> s.y1 - s.y0]
\* Filter out obvious noise and common header info
is_noise(t) == Len(t) < 3 \/ numeric_or_punct(t) \/ is_header(t)
\* the list `candidates` after the loops over blocks, lines and spans
RECURSIVE build_candidates(_)
build_candidates(spans) ==
  IF spans = <<>> THEN <<>>
  ELSE LET c == candidate_of(Head(spans))
       IN  IF is_noise(c.text) THEN build_candidates(Tail(spans))
           ELSE <<c>> \o build_candidates(Tail(spans))

\* list.sort(key=...): stable, ascending in keys[i], the key of seq[i]
StableSort(seq, keys) ==
  LET n == Len(seq)
      rank(i) == Cardinality({j \in 1..n : keys[j] < keys[i] \/ (keys[j] = keys[i] /\ j < i)})
  IN  [p \in 1..n |-> seq[CHOOSE i \in 1..n : rank(i) = p - 1]]
\* candidates.sort(key=lambda x: x["size"], reverse=True)
sort_by_size_desc(cs) == StableSort(cs, [i \in 1..Len(cs) |-> 0 - cs[i].size])
\* title_spans.sort(key=lambda x: x["y"])
sort_by_y(cs) == StableSort(cs, [i \in 1..Len(cs) |-> cs[i].y])

\* c["size"] > max_size * 0.99
near_max(c, max_size) == c.size * 100 > max_size * 99
largest_group(cs, max_size) == SelectSeq(cs, LAMBDA c : near_max(c, max_size))
\* the candidates sorted as the code sorts them, and the title font's spans
sorted_candidates(spans) == sort_by_size_desc(build_candidates(spans))
title_spans_of(cands) == sort_by_y(largest_group(cands, cands[1].size))

\* gap > last_height * 1.3
gap_breaks(current, last_y, last_height) ==
  (current.y - (last_y + last_height)) * 10 > last_height * 13
\* 2. Content Heuristics and 3. Author List Detection
content_breaks(t) ==
  LET txt == lower(t)
  IN  \/ Contains(txt, <<"@">>) \/ Contains(txt, <<"e","m","a","i","l">>)
      \/ \E kw \in {<<"u","n","i","v","e","r","s","i","t","y">>, <<"i","n","s","t","i","t","u","t","e">>, <<"d","e","p","a","r","t","m","e","n","t">>, <<"l","a","b","o","r","a","t","o","r","y">>} : Contains(txt, kw)
      \/ \E kw \in {<<"r","e","c","e","i","v","e","d">>, <<"a","c","c","e","p","t","e","d">>, <<"c","o","r","r","e","s","p","o","n","d","e","n","c","e">>} : Contains(txt, kw)
      \/ count(t, ",") > 2
      \/ initials_count(t, 1) > 1
breaks(current, last_y, last_height) ==
  gap_breaks(current, last_y, last_height) \/ content_breaks(current.text)

\* the clustering loop with `continue` where the code has `break`
RECURSIVE cluster_skipping(_, _, _, _, _)
cluster_skipping(title_spans, i, final_parts, last_y, last_height) ==
  IF i > Len(title_spans) THEN final_parts
  ELSE LET current == title_spans[i]
       IN  IF breaks(current, last_y, last_height)
           THEN cluster_skipping(title_spans, i + 1, final_parts, last_y, last_height)
           ELSE cluster_skipping(title_spans, i + 1, Append(final_parts, current.text),
                                 current.y, current.height)

\* the clustering loop from title_spans[i] on
RECURSIVE cluster_from(_, _, _, _, _)
cluster_from(title_spans, i, final_parts, last_y, last_height) ==
  IF i > Len(title_spans) THEN final_parts
  ELSE LET current == title_spans[i]
       IN  IF breaks(current, last_y, last_height) THEN final_parts
           ELSE cluster_from(title_spans, i + 1, Append(final_parts, current.text),
                             current.y, current.height)
\* final_parts
cluster(title_spans) ==
  IF title_spans = <<>> THEN <<>>
  ELSE cluster_from(title_spans, 2, <<title_spans[1].text>>,
                    title_spans[1].y, title_spans[1].height)
\* " ".join(parts), whitespace runs collapsed, stripped
join_title(parts) == strip(collapse_ws(join(parts), 1))
texts_of(cs) == [i \in 1..Len(cs) |-> cs[i].text]
clustered_title(cands) == join_title(cluster(title_spans_of(cands)))

\* Sanity check fallback: the next largest font group, simply joined
secondary_title(cands) ==
  LET max_size == cands[1].size
      remaining == SelectSeq(cands, LAMBDA c : ~near_max(c, max_size))
  IN  IF remaining = <<>> THEN <<>>
      ELSE join_title(texts_of(sort_by_y(largest_group(remaining, remaining[1].size))))
is_degenerate(title) == Len(title) < 5 \/ digits_or_space(title)

UnknownTitle == <<"U","n","k","n","o","w","n"," ","T","i","t","l","e">>
\* what Strategy 2 returns for the spans of page 1
visual_title(spans) ==
  LET cands == sorted_candidates(spans)
  IN  IF cands = <<>> THEN UnknownTitle
      ELSE LET title == clustered_title(cands)
               title_2 == secondary_title(cands)
           IN  IF /\ is_degenerate(title)
                  /\ Len(cands) > 1
                  /\ Len(title_2) > 5
                  /\ ~digits_or_space(title_2)
               THEN title_2
               ELSE title

(***************************************************************************)
(* extract_text_content: what the two engines give for a document          *)
(*                                                                         *)
(* A document is a record: whether fitz.open and pdfplumber.open succeed,  *)
(* the text of each page as each engine reports it, the page (0: none) at  *)
(* which get_text("text") or extract_text() raises, the metadata title,    *)
(* whether reading it raises, the spans of page 1, and whether loading     *)
(* page 1 or get_text("dict") raises.                                      *)
(***************************************************************************)
PageLimit == 6
MinTextLen == 50
Min(a, b) == IF a < b THEN a ELSE b

\* text += p.get_text("text") + "\n" for the pages first..last
RECURSIVE fitz_pages_text(_, _, _)
fitz_pages_text(pages, first, last) ==
  IF first > last THEN <<>>
  ELSE pages[first] \o <<"\n">> \o fitz_pages_text(pages, first + 1, last)
\* if t: text += t + "\n" for the pages first..last
RECURSIVE plumber_pages_text(_, _, _)
plumber_pages_text(pages, first, last) ==
  IF first > last THEN <<>>
  ELSE (IF pages[first] # <<>> THEN pages[first] \o <<"\n">> ELSE <<>>)
       \o plumber_pages_text(pages, first + 1, last)

\* the pages doc[:6] and pdf.pages[:6] hold
scanned(pages) == Min(Len(pages), PageLimit)
\* whether the try block of an engine ends in its except clause after the open
fitz_raises(d) == d.fitzOpens /\ d.textFailAt \in 1..scanned(d.fitzPages)
plumber_raises(d) == d.plumberOpens /\ d.plumberFailAt \in 1..scanned(d.plumberPages)
\* `text` after step 1 (PyMuPDF)
fitz_text(d) ==
  IF ~d.fitzOpens THEN <<>>
  ELSE fitz_pages_text(d.fitzPages, 1,
         IF fitz_raises(d) THEN d.textFailAt - 1 ELSE scanned(d.fitzPages))
\* what step 2 (pdfplumber) adds to `text`
plumber_text(d) ==
  IF ~d.plumberOpens THEN <<>>
  ELSE plumber_pages_text(d.plumberPages, 1,
         IF plumber_raises(d) THEN d.plumberFailAt - 1 ELSE scanned(d.plumberPages))
\* len(text.strip()) < 50
needs_fallback(t) == Len(strip(t)) < MinTextLen
\* `text` after step 2
text_after_fallback(t, d) == t \o plumber_text(d)

(***************************************************************************)
(* process_single_pdf: the rows                                            *)
(***************************************************************************)
Row(name, t, e) == [File_Name |-> name, Exact_Title |-> t, Email |-> e]
\* the rows with the sentinel row left out
rows_without_sentinel(name, t, es, exclude) ==
  IF es # <<>> THEN [i \in 1..Len(es) |-> Row(name, t, es[i])] ELSE <<>>
\* the rows with only the first address kept
rows_first_only(name, t, es, exclude) ==
  IF es # <<>> THEN <<Row(name, t, es[1])>>
  ELSE IF ~exclude THEN <<Row(name, t, <<"N","o"," ","E","m","a","i","l"," ","F","o","u","n","d">>)>>
  ELSE <<>>
\* the rows with the flag not consulted
rows_flag_ignored(name, t, es, exclude) ==
  IF es # <<>> THEN [i \in 1..Len(es) |-> Row(name, t, es[i])]
  ELSE <<Row(name, t, <<"N","o"," ","E","m","a","i","l"," ","F","o","u","n","d">>)>>

\* 3. Add to results, for a document with text
rows_for(name, t, es, exclude) ==
  IF es # <<>> THEN [i \in 1..Len(es) |-> Row(name, t, es[i])]
  ELSE IF ~exclude THEN <<Row(name, t, <<"N","o"," ","E","m","a","i","l"," ","F","o","u","n","d">>)>>
  ELSE <<>>
\* the else branch, for a document without text
rows_unreadable(name, exclude) ==
  IF ~exclude THEN <<Row(name, <<"U","n","r","e","a","d","a","b","l","e"," ","P","D","F">>, <<"E","r","r","o","r">>)>> ELSE <<>>

(***************************************************************************)
(* The state of one call                                                   *)
(***************************************************************************)
VARIABLES
  top,              \* the function called: the call ends when it returns
  doc,              \* the document behind file_bytes / path
  file_name,
  exclude_no_email,
  pc,               \* the statement the call is at
  tmp_exists,       \* whether the temporary file at tmp_path exists
  open_handles,     \* the engine handles opened and not closed by the call
  text,             \* `text` of extract_text_content
  full_text,        \* what extract_text_content returned
  title,            \* what get_strict_title returned
  via,              \* the return statement of get_strict_title that gave it
  spans_read,       \* whether the blocks of page 1 were read
  emails,           \* what extract_emails returned
  results,
  ret               \* what process_single_pdf returned

vars == <<top, doc, file_name, exclude_no_email, pc, tmp_exists, open_handles, text,
          full_text, title, via, spans_read, emails, results, ret>>
inputs == <<top, doc, file_name, exclude_no_email>>

\* where a function returns to
after(fn, continuation) == IF top = fn THEN "done" ELSE continuation

(***************************************************************************)
(* process_single_pdf                                                      *)
(***************************************************************************)
\* Save to temp file, and call extract_text_content
psp_save_temp ==
  /\ pc = "psp_save_temp"
  /\ tmp_exists' = TRUE
  /\ pc' = "etc_fitz"
  /\ UNCHANGED <<inputs, open_handles, text, full_text, title, via, spans_read,
                 emails, results, ret>>

\* 1. Try PyMuPDF: doc.close() is reached only when nothing raised
etc_fitz ==
  /\ pc = "etc_fitz"
  /\ text' = fitz_text(doc)
  /\ open_handles' = IF fitz_raises(doc) THEN open_handles \cup {"fitz_text"}
                     ELSE open_handles
  /\ pc' = IF needs_fallback(text') THEN "etc_plumber" ELSE "etc_return"
  /\ UNCHANGED <<inputs, tmp_exists, full_text, title, via, spans_read, emails,
                 results, ret>>

\* 2. Hard Fallback to pdfplumber: the with statement closes the handle
etc_plumber ==
  /\ pc = "etc_plumber"
  /\ text' = text_after_fallback(text, doc)
  /\ pc' = "etc_return"
  /\ UNCHANGED <<inputs, tmp_exists, open_handles, full_text, title, via,
                 spans_read, emails, results, ret>>

\* return text.strip()
etc_return ==
  /\ pc = "etc_return"
  /\ full_text' = strip(text)
  /\ pc' = after("extract_text_content", "psp_branch")
  /\ UNCHANGED <<inputs, tmp_exists, open_handles, text, title, via, spans_read,
                 emails, results, ret>>

\* if full_text: ... else: the row of an unreadable document
psp_branch ==
  /\ pc = "psp_branch"
  /\ IF full_text # <<>>
     THEN pc' = "gst_open" /\ UNCHANGED results
     ELSE /\ results' = rows_unreadable(file_name, exclude_no_email)
          /\ pc' = "psp_finally"
  /\ UNCHANGED <<inputs, tmp_exists, open_handles, text, full_text, title, via,
                 spans_read, emails, ret>>

(***************************************************************************)
(* get_strict_title                                                        *)
(***************************************************************************)
\* doc = fitz.open(path); a failure goes to the except clause
gst_open ==
  /\ pc = "gst_open"
  /\ IF doc.fitzOpens
     THEN /\ open_handles' = open_handles \cup {"fitz_title"}
          /\ pc' = "gst_metadata"
          /\ UNCHANGED <<title, via>>
     ELSE /\ title' = UnknownTitle
          /\ via' = "exception"
          /\ pc' = after("get_strict_title", "extract_emails")
          /\ UNCHANGED open_handles
  /\ UNCHANGED <<inputs, tmp_exists, text, full_text, spans_read, emails, results, ret>>

\* Strategy 1: Metadata.  doc.close() comes only before `return meta_title`
gst_metadata ==
  /\ pc = "gst_metadata"
  /\ IF doc.metaFails
     THEN /\ title' = UnknownTitle
          /\ via' = "exception"
          /\ pc' = after("get_strict_title", "extract_emails")
          /\ UNCHANGED open_handles
     ELSE IF meta_accepted(strip(doc.meta))
     THEN /\ open_handles' = open_handles \ {"fitz_title"}
          /\ title' = strip(doc.meta)
          /\ via' = "metadata"
          /\ pc' = after("get_strict_title", "extract_emails")
     ELSE /\ pc' = "gst_page"
          /\ UNCHANGED <<open_handles, title, via>>
  /\ UNCHANGED <<inputs, tmp_exists, text, full_text, spans_read, emails, results, ret>>

\* page = doc[0]; blocks = page.get_text("dict")["blocks"]; doc.close()
gst_page ==
  /\ pc = "gst_page"
  /\ IF doc.dictFails
     THEN /\ title' = UnknownTitle
          /\ via' = "exception"
          /\ pc' = after("get_strict_title", "extract_emails")
          /\ UNCHANGED <<open_handles, spans_read>>
     ELSE /\ open_handles' = open_handles \ {"fitz_title"}
          /\ spans_read' = TRUE
          /\ pc' = "gst_visual"
          /\ UNCHANGED <<title, via>>
  /\ UNCHANGED <<inputs, tmp_exists, text, full_text, emails, results, ret>>

\* Strategy 2: Visual Title
gst_visual ==
  /\ pc = "gst_visual"
  /\ title' = visual_title(doc.spans)
  /\ via' = LET cands == sorted_candidates(doc.spans)
            IN  IF cands = <<>> THEN "no_candidates"
                ELSE IF title' = clustered_title(cands) THEN "visual"
                ELSE "secondary"
  /\ pc' = after("get_strict_title", "extract_emails")
  /\ UNCHANGED <<inputs, tmp_exists, open_handles, text, full_text, spans_read,
                 emails, results, ret>>

(***************************************************************************)
(* extract_emails, and the end of process_single_pdf                       *)
(***************************************************************************)
extract_emails_call ==
  /\ pc = "extract_emails"
  /\ emails' = extract_emails(full_text)
  /\ pc' = after("extract_emails", "psp_results")
  /\ UNCHANGED <<inputs, tmp_exists, open_handles, text, full_text, title, via,
                 spans_read, results, ret>>

\* 3. Add to results
psp_results ==
  /\ pc = "psp_results"
  /\ results' = rows_for(file_name, title, emails, exclude_no_email)
  /\ pc' = "psp_finally"
  /\ UNCHANGED <<inputs, tmp_exists, open_handles, text, full_text, title, via,
                 spans_read, emails, ret>>

\* finally: os.remove(tmp_path); return results.  Nothing in the try block
\* raises to this function (both callees catch Exception), so the except
\* clause that returns the "Error" row is never entered.
psp_finally ==
  /\ pc = "psp_finally"
  /\ tmp_exists' = FALSE
  /\ ret' = results
  /\ pc' = "done"
  /\ UNCHANGED <<inputs, open_handles, text, full_text, title, via, spans_read,
                 emails, results>>

(***************************************************************************)
(* The documents the model is run on                                       *)
(***************************************************************************)
\* page texts
T_contacts == <<"C","o","n","t","a","c","t",":"," ","A","l","i","c","e","@","E","x","a","m","p","l","e",".","c","o","m",","," ","b","o","b","@","u","n","i",".","e","d","u",";"," ","A","L","I","C","E","@","e","x","a","m","p","l","e",".","c","o","m"," ","o","r","\n","c","a","r","o","l",".","d","@","l","a","b","-","x",".","o","r","g">>
T_prose == <<"T","h","i","s"," ","p","a","g","e"," ","h","o","l","d","s"," ","p","r","o","s","e"," ","o","n","l","y",","," ","w","i","t","h"," ","n","o"," ","c","o","n","t","a","c","t"," ","a","d","d","r","e","s","s"," ","o","n"," ","i","t",".">>
T_hi == <<"H","i">>
T_blank == <<" ","\n">>
T_short_mail == <<"A","s","k"," ","x","@","y",".","i","o">>
T_scan == <<"S","c","a","n","n","e","d"," ","t","e","x","t",":"," ","w","r","i","t","e"," ","t","o"," ","D","a","n","@","S","c","a","n",".","n","e","t"," ","o","r"," ","d","a","n","@","s","c","a","n",".","n","e","t">>
T_ten == <<"0","1","2","3","4","5","6","7","8","9">>
T_late == <<"l","a","t","e","@","p","a","g","e",".","s","e","v","e","n">>
SevenPages == <<T_ten, T_ten, T_ten, T_ten, T_ten, T_ten, T_late>>

\* metadata titles
M_study == <<"A"," ","S","t","u","d","y"," ","o","f"," ","T","h","i","n","g","s">>
M_word == <<"M","i","c","r","o","s","o","f","t"," ","W","o","r","d"," ","-"," ","f","i","n","a","l","_","v","3",".","d","o","c">>
Ten == <<"a","b","c","d","e","f","g","h","i"," ">>
M_200 == Rep(Ten, 19) \o <<"a","b","c","d","e","f","g","h","i","j">>
MetaTitles ==
  { <<>>, M_study, M_word, <<"a","b","c","d","e">>, <<"a","b","c","d","e","f">>, <<" "," ","a","b","c","d","e","f"," ","\n">>, <<"1","2","3","4","5","-","6","7">>, <<"2","0","2","0","_","0","1",".","0","2">>,
    SubSeq(M_200, 1, 199), M_200, M_200 \o <<"k">>,
    <<"U","n","t","i","t","l","e","d","-","1">>, <<"L","a","T","e","X","2","e"," ","o","u","t","p","u","t">>, <<"P","r","e","s","e","n","t","a","t","i","o","n","1">>, <<"r","e","p","o","r","t",".","P","D","F">>, <<"t","h","e","s","i","s",".","d","o","c","x">>,
    <<"n","o","t","e","s",".","d","o","c">>, <<"S","l","i","d","e"," ","d","e","c","k">>, <<"d","o","c","u","m","e","n","t","1","2">>, <<"P","a","p","e","r">>, <<"P","a","p","e","r"," ","t","r","a","i","l">>, <<"D","o","c","u","m","e","n","t","s">> }

\* spans of page 1: [text, size, y0, y1]
Span(t, s, a, b) == [text |-> t, size |-> s, y0 |-> a, y1 |-> b]
SpanPool ==
  << Span(<<"A","B","C">>, 30, 0, 12),
     Span(<<"A","p","p","e","n","d","i","x">>, 24, 60, 70),
     Span(<<"D","e","e","p"," ","L","e","a","r","n","i","n","g">>, 24, 0, 10),
     Span(<<"N","e","t","w","o","r","k","s">>, 24, 0, 10),
     Span(<<"f","o","r"," ","V","i","s","i","o","n">>, 24, 11, 21),
     Span(<<"S","t","a","n","f","o","r","d"," ","U","n","i","v","e","r","s","i","t","y">>, 24, 11, 21),
     Span(<<"a","n","d"," ","B","e","y","o","n","d">>, 24, 22, 32),
     Span(<<"J","."," ","S","m","i","t","h",","," ","A","."," ","D","o","e">>, 12, 25, 33),
     Span(<<" ","x","@","y",".","o","r","g"," ">>, 24, 22, 32),
     Span(<<"1","2","3","4","5">>, 30, 0, 12),
     Span(<<"d","o","i",":","1","0",".","1","/","x">>, 30, 40, 52),
     Span(<<"H","i","d","d","e","n"," ","t","e","x","t">>, 0, 5, 5) >>
ExampleSpans ==
  << Span(<<"D","e","e","p"," ","L","e","a","r","n","i","n","g">>, 24, 0, 10), Span(<<"f","o","r"," ","V","i","s","i","o","n">>, 24, 11, 21),
     Span(<<"J","."," ","S","m","i","t","h",","," ","A","."," ","D","o","e">>, 12, 25, 33) >>

MaxSpans == 3
\* the spans at the positions idx of the pool, in the pool's order
RECURSIVE pick(_, _)
pick(idx, from) ==
  IF from > Len(SpanPool) THEN <<>>
  ELSE (IF from \in idx THEN <<SpanPool[from]>> ELSE <<>>) \o pick(idx, from + 1)
SpanLists ==
  {pick(idx, 1) : idx \in {s \in SUBSET (1..Len(SpanPool)) : Cardinality(s) <= MaxSpans}}
FewSpanLists == {<<>>, ExampleSpans, <<SpanPool[1], SpanPool[8]>>}

\* the part of a document the title resolver reads
TitlePart(m, mf, sp, df) == [meta |-> m, metaFails |-> mf, spans |-> sp, dictFails |-> df]
\* the part each text engine reads
FitzPart(pages, failAt) == [fitzOpens |-> TRUE, fitzPages |-> pages, textFailAt |-> failAt]
NoFitz == [fitzOpens |-> FALSE, fitzPages |-> <<>>, textFailAt |-> 0]
PlumberPart(pages, failAt) ==
  [plumberOpens |-> TRUE, plumberPages |-> pages, plumberFailAt |-> failAt]
NoPlumber == [plumberOpens |-> FALSE, plumberPages |-> <<>>, plumberFailAt |-> 0]
NoTitle == TitlePart(<<>>, FALSE, <<>>, FALSE)
Document(f, t, pl) ==
  [fitzOpens |-> f.fitzOpens, fitzPages |-> f.fitzPages, textFailAt |-> f.textFailAt,
   meta |-> t.meta, metaFails |-> t.metaFails, spans |-> t.spans, dictFails |-> t.dictFails,
   plumberOpens |-> pl.plumberOpens, plumberPages |-> pl.plumberPages,
   plumberFailAt |-> pl.plumberFailAt]

FitzParts ==
  {FitzPart(pg, f) : pg \in {<<T_contacts>>, <<T_prose>>, <<T_hi>>, <<T_blank>>,
                             <<T_short_mail>>, <<T_prose, T_contacts>>, SevenPages},
                     f \in 0..2}
PlumberParts ==
  {NoPlumber} \cup
  {PlumberPart(pg, f) : pg \in {<<T_scan>>, <<>>, <<<<>>, T_prose>>, SevenPages}, f \in 0..2}
\* the title resolver's inputs: every metadata title with a few pages, and every
\* page with a missing and with a rejected metadata title
TitleParts ==
  {TitlePart(m, FALSE, sp, FALSE) : m \in MetaTitles, sp \in FewSpanLists} \cup
  {TitlePart(m, FALSE, sp, FALSE) : m \in {<<>>, M_word}, sp \in SpanLists} \cup
  {TitlePart(m, TRUE, ExampleSpans, FALSE) : m \in {<<>>, M_study}} \cup
  {TitlePart(m, FALSE, ExampleSpans, TRUE) : m \in {M_word, M_study}}

\* extract_text_content(path)
TextDocs ==
  {Document(f, NoTitle, pl) : f \in {NoFitz} \cup FitzParts, pl \in PlumberParts}
\* get_strict_title(path, text_content)
TitleDocs ==
  {Document(f, t, NoPlumber) : f \in {FitzPart(<<T_prose>>, 0)}, t \in TitleParts} \cup
  {Document(NoFitz, NoTitle, NoPlumber)}
\* process_single_pdf(file_bytes, file_name, exclude_no_email)
PspTitleParts ==
  { TitlePart(M_study, FALSE, ExampleSpans, FALSE),
    TitlePart(M_word, FALSE, ExampleSpans, FALSE),
    TitlePart(<<>>, FALSE, <<>>, FALSE),
    TitlePart(<<>>, FALSE, <<SpanPool[12]>>, FALSE),
    TitlePart(<<>>, TRUE, ExampleSpans, FALSE),
    TitlePart(M_word, FALSE, ExampleSpans, TRUE) }
PspFitzParts ==
  {FitzPart(pg, f) : pg \in {<<T_contacts>>, <<T_prose>>, <<T_hi>>, <<T_blank>>,
                             <<T_short_mail>>, SevenPages},
                     f \in 0..1}
PspPlumberParts ==
  {NoPlumber} \cup {PlumberPart(pg, f) : pg \in {<<T_scan>>, <<>>, <<T_prose>>}, f \in 0..1}
Docs ==
  {Document(f, t, pl) : f \in PspFitzParts, t \in PspTitleParts, pl \in PspPlumberParts} \cup
  {Document(NoFitz, NoTitle, pl) : pl \in PspPlumberParts}
FileNames == {"a.pdf", "b.pdf"}

\* the texts extract_emails is run on: words and addresses joined by separators
MaxTokens == 3
Tokens ==
  { <<"B","o","b","@","X",".","o","r","g">>, <<"b","o","b","@","x",".","O","R","G">>, <<"a",".","b","+","c","@","m","a","i","l","-","1",".","e","x","a","m","p","l","e",".","c","o","m">>, <<"x","@","y">>, <<"s","e","e">>, <<"a","n","n","@","x",".","o","r","g">> }
Separators == {<<" ">>, <<","," ">>}
RECURSIVE TokenTexts(_)
TokenTexts(n) ==
  IF n = 0 THEN {<<>>}
  ELSE LET shorter == TokenTexts(n - 1)
       IN  shorter \cup {t \o sep \o tok : t \in shorter, sep \in Separators, tok \in Tokens}
EmailTexts == TokenTexts(MaxTokens)

(***************************************************************************)
(* The specifications: a call of each function                             *)
(***************************************************************************)
Fresh ==
  /\ open_handles = {}
  /\ text = <<>>
  /\ title = <<>>
  /\ via = "none"
  /\ spans_read = FALSE
  /\ emails = <<>>
  /\ results = <<>>
  /\ ret = <<>>

\* process_single_pdf on every document
Init ==
  /\ top = "process_single_pdf"
  /\ pc = "psp_save_temp"
  /\ doc \in Docs
  /\ file_name \in FileNames
  /\ exclude_no_email \in BOOLEAN
  /\ tmp_exists = FALSE
  /\ full_text = <<>>
  /\ Fresh
Next ==
  \/ psp_save_temp \/ etc_fitz \/ etc_plumber \/ etc_return \/ psp_branch
  \/ gst_open \/ gst_metadata \/ gst_page \/ gst_visual
  \/ extract_emails_call \/ psp_results \/ psp_finally
Spec == Init /\ [][Next]_vars

\* extract_text_content on a file that exists
InitText ==
  /\ top = "extract_text_content"
  /\ pc = "etc_fitz"
  /\ doc \in TextDocs
  /\ file_name = "a.pdf"
  /\ exclude_no_email = TRUE
  /\ tmp_exists = TRUE
  /\ full_text = <<>>
  /\ Fresh
NextText == etc_fitz \/ etc_plumber \/ etc_return
SpecText == InitText /\ [][NextText]_vars

\* get_strict_title on a file that exists
InitTitle ==
  /\ top = "get_strict_title"
  /\ pc = "gst_open"
  /\ doc \in TitleDocs
  /\ file_name = "a.pdf"
  /\ exclude_no_email = TRUE
  /\ tmp_exists = TRUE
  /\ full_text = T_prose
  /\ Fresh
NextTitle == gst_open \/ gst_metadata \/ gst_page \/ gst_visual
SpecTitle == InitTitle /\ [][NextTitle]_vars

\* extract_emails on a text
InitEmails ==
  /\ top = "extract_emails"
  /\ pc = "extract_emails"
  /\ doc = Document(NoFitz, NoTitle, NoPlumber)
  /\ file_name = "a.pdf"
  /\ exclude_no_email = TRUE
  /\ tmp_exists = FALSE
  /\ full_text \in EmailTexts
  /\ Fresh
NextEmails == extract_emails_call
SpecEmails == InitEmails /\ [][NextEmails]_vars

(***************************************************************************)
(* The claims                                                              *)
(***************************************************************************)
Done == pc = "done"
\* the matches of EMAIL_RE in the returned text, and the addresses among them
Matches == EMAIL_RE_findall(full_text)
Found == {lower(Matches[k]) : k \in 1..Len(Matches)}

\* C1: a document that neither engine can open gives exactly one row, whose
\* title is "Error", whatever the flag
C1_ErrorRowOnOpenFailure ==
  (Done /\ ~doc.fitzOpens /\ ~doc.plumberOpens)
    => (Len(ret) = 1 /\ ret[1].Exact_Title = <<"E","r","r","o","r">>)

\* C2: when process_single_pdf has returned, no handle it opened is still open
\* and its temporary file is gone
C2_ReleasedOnEveryExit == Done => (open_handles = {} /\ ~tmp_exists)

\* C3 as stated: no address found and excludeIfNoEmail false give exactly one
\* row, whose email is "No Email Found"
C3_Original ==
  (Done /\ ~exclude_no_email /\ Matches = <<>>)
    => (Len(ret) = 1 /\ ret[1].Email = <<"N","o"," ","E","m","a","i","l"," ","F","o","u","n","d">>)
\* C3 amended: with excludeIfNoEmail false and no address found, a document with
\* text gives exactly the row (fileName, title, "No Email Found"), and a document
\* without text exactly the row (fileName, "Unreadable PDF", "Error")
C3_SentinelRow ==
  (Done /\ ~exclude_no_email /\ Matches = <<>>)
    => /\ Len(ret) = 1
       /\ ret[1].File_Name = file_name
       /\ full_text # <<>> => (ret[1].Email = <<"N","o"," ","E","m","a","i","l"," ","F","o","u","n","d">> /\ ret[1].Exact_Title = title)
       /\ full_text = <<>> => (ret[1].Email = <<"E","r","r","o","r">> /\ ret[1].Exact_Title = <<"U","n","r","e","a","d","a","b","l","e"," ","P","D","F">>)
C3_Witness ==
  /\ Done /\ ~exclude_no_email /\ Matches = <<>> /\ full_text # <<>>
  /\ ret = <<Row(file_name, title, <<"N","o"," ","E","m","a","i","l"," ","F","o","u","n","d">>)>>

\* C4: the title get_strict_title returns is never the empty string
C4_TitleNonEmpty == Done => title # <<>>

\* the conditions of METADATA_CHECK on the embedded title, as C5 states them and
\* with the length 200 let in
MetaTitle == strip(doc.meta)
MetaRead == doc.fitzOpens /\ ~doc.metaFails
C5_StatedCondition ==
  /\ Len(MetaTitle) > 5 /\ Len(MetaTitle) < 200
  /\ ~numeric_or_punct(MetaTitle)
  /\ ~is_junk(MetaTitle)
C5_AmendedCondition ==
  /\ Len(MetaTitle) > 5 /\ Len(MetaTitle) <= 200
  /\ ~numeric_or_punct(MetaTitle)
  /\ ~is_junk(MetaTitle)
\* the resolver went on to the visual strategy: it is at, or returned from, the
\* code after the metadata check
WentVisual ==
  \/ pc \in {"gst_page", "gst_visual"}
  \/ Done /\ via \in {"no_candidates", "visual", "secondary", "exception"}
AcceptedMeta == Done /\ via = "metadata" /\ title = MetaTitle /\ ~spans_read
\* C5 as stated: the metadata title is the final title, the spans of page 1 not
\* read, iff its length is strictly between 5 and 200 and it is neither
\* numeric/punctuation nor junk; otherwise the resolver goes on to the visual strategy
C5_Original ==
  (MetaRead /\ pc \notin {"gst_open", "gst_metadata"})
    => /\ C5_StatedCondition <=> AcceptedMeta
       /\ ~C5_StatedCondition <=> WentVisual
\* C5 amended: the same with a length greater than 5 and at most 200
C5_MetadataAccepted ==
  (MetaRead /\ pc \notin {"gst_open", "gst_metadata"})
    => /\ C5_AmendedCondition <=> AcceptedMeta
       /\ ~C5_AmendedCondition <=> WentVisual
C5_Witness == AcceptedMeta /\ Len(MetaTitle) = 200 /\ doc.spans # <<>>

\* the engines' texts: the primary's as accumulated, the secondary's alone
PrimaryText == fitz_text(doc)
SecondaryText == plumber_text(doc)
\* C6: the returned text is the primary engine's when that has at least 50
\* characters trimmed, and otherwise the secondary engine's and nothing else
C6_SecondaryInstead ==
  Done => IF Len(strip(PrimaryText)) >= 50
          THEN full_text = strip(PrimaryText)
          ELSE full_text = strip(SecondaryText)

\* the position of the first match that is e when lowercased
FirstAt(e) == SetMin({k \in 1..Len(Matches) : lower(Matches[k]) = e})
\* C7: the list extract_emails returns is lowercase, holds each address found
\* exactly once, whatever its case in the text, and is in the order of first
\* occurrence
C7_LowercaseUniqueInOrder ==
  Done =>
    /\ \A i \in 1..Len(emails) : \A k \in 1..Len(emails[i]) : emails[i][k] \notin Uppers
    /\ Range(emails) = Found
    /\ \A i, j \in 1..Len(emails) : i < j => emails[i] # emails[j] /\ FirstAt(emails[i]) < FirstAt(emails[j])
C7_Witness ==
  /\ Done
  /\ Len(emails) >= 2
  /\ \E i, j \in 1..Len(Matches) :
       i < j /\ Matches[i] # Matches[j] /\ lower(Matches[i]) = lower(Matches[j])

\* C8: a document whose text holds N >= 1 distinct addresses gives N rows, one
\* per address in extraction order, with the same file name and title and
\* pairwise different emails, whatever the flag
C8_OneRowPerEmail ==
  (Done /\ Found # {})
    => /\ Len(ret) = Cardinality(Found)
       /\ Len(emails) = Cardinality(Found)
       /\ \A i \in 1..Len(ret) : ret[i] = Row(file_name, title, emails[i])
       /\ {ret[i].Email : i \in 1..Len(ret)} = Found
       /\ \A i, j \in 1..Len(ret) : i # j => ret[i].Email # ret[j].Email
C8_Witness == Done /\ Cardinality(Found) = 3 /\ Len(ret) = 3 /\ exclude_no_email

\* C9: no address found and excludeIfNoEmail true give the empty list
C9_ExcludedWhenNoEmail == (Done /\ exclude_no_email /\ Matches = <<>>) => ret = <<>>
C9_Witness ==
  Done /\ exclude_no_email /\ Matches = <<>> /\ full_text # <<>> /\ title # <<>> /\ ret = <<>>

\* the largest-font group in reading order, and the break conditions as C10
\* states them, between a span and the span accumulated before it
TitleSpans ==
  LET cands == sorted_candidates(doc.spans)
  IN  IF cands = <<>> THEN <<>> ELSE title_spans_of(cands)
C10_Breaks(current, previous) ==
  \/ (current.y - (previous.y + previous.height)) * 10 > 13 * previous.height
  \/ content_breaks(current.text)
\* the longest prefix within which no span breaks from the one before it
C10_PrefixLen ==
  IF TitleSpans = <<>> THEN 0
  ELSE SetMax({n \in 1..Len(TitleSpans) :
                 \A i \in 2..n : ~C10_Breaks(TitleSpans[i], TitleSpans[i - 1])})
C10_PrefixTitle ==
  join_title([i \in 1..C10_PrefixLen |-> TitleSpans[i].text])
\* C10: the clustered title is the normalised join of the prefix of the
\* largest-font group that ends before the first span on which a break condition
\* fires: it is the title returned unless it is degenerate and the secondary
\* fallback replaces it; for the spans of the example it is
\* "Deep Learning for Vision"
C10_ClusterIsPrefix ==
  /\ (Done /\ via = "visual") => title = C10_PrefixTitle
  /\ (Done /\ via = "secondary") => (is_degenerate(C10_PrefixTitle) /\ title # C10_PrefixTitle)
  /\ (Done /\ spans_read /\ doc.spans = ExampleSpans) => title = <<"D","e","e","p"," ","L","e","a","r","n","i","n","g"," ","f","o","r"," ","V","i","s","i","o","n">>
\* a break fired, and a later span would not have broken from the last one kept
C10_Witness ==
  /\ Done /\ via = "visual" /\ title = C10_PrefixTitle
  /\ C10_PrefixLen >= 1
  /\ C10_PrefixLen + 2 <= Len(TitleSpans)
  /\ \E j \in (C10_PrefixLen + 2)..Len(TitleSpans) :
       ~C10_Breaks(TitleSpans[j], TitleSpans[C10_PrefixLen])
=============================================================================
